---- MODULE Spec2Model ----
(***************************************************************************)
(* A model of .github/scripts/aggregate_qqq.py: the quarter locator, the   *)
(* manager loader, the quarterly and non-quarterly aggregators, the value  *)
(* parser and the driver main().                                           *)
(*                                                                         *)
(* Python strings are sequences of one-character strings, so that strip,   *)
(* replace, upper, startswith/endswith, int(), float(), the quarter        *)
(* pattern and string comparison are computed as the code computes them.   *)
(***************************************************************************)
EXTENDS Integers, Sequences, FiniteSets, TLC

(***************************************************************************)
(* Strings                                                                 *)
(***************************************************************************)

\* The characters of the model, in Unicode code point order (str comparison).
CodeOrder ==
  << "\t", "\n", " ", "$", "%", "+", ",", "-", ".", "/",
     "0", "1", "2", "3", "4", "5", "6", "7", "8", "9",
     "A", "B", "C", "D", "E", "F", "G", "H", "I", "J", "K", "L", "M",
     "N", "O", "P", "Q", "R", "S", "T", "U", "V", "W", "X", "Y", "Z",
     "a", "b", "c", "d", "e", "f", "g", "h", "i", "j", "k", "l", "m",
     "n", "o", "p", "q", "r", "s", "t", "u", "v", "w", "x", "y", "z" >>

Alphabet == { CodeOrder[i] : i \in 1..Len(CodeOrder) }

\* ord(c), up to a monotone renumbering
Ord == [ c \in Alphabet |-> CHOOSE i \in 1..Len(CodeOrder) : CodeOrder[i] = c ]

Whitespace == { "\t", "\n", " " }

Digits == << "0", "1", "2", "3", "4", "5", "6", "7", "8", "9" >>

DigitSet == { Digits[i] : i \in 1..10 }

DigitVal == [ c \in DigitSet |-> (CHOOSE i \in 1..10 : Digits[i] = c) - 1 ]

LowerLetters ==
  << "a", "b", "c", "d", "e", "f", "g", "h", "i", "j", "k", "l", "m",
     "n", "o", "p", "q", "r", "s", "t", "u", "v", "w", "x", "y", "z" >>

UpperLetters ==
  << "A", "B", "C", "D", "E", "F", "G", "H", "I", "J", "K", "L", "M",
     "N", "O", "P", "Q", "R", "S", "T", "U", "V", "W", "X", "Y", "Z" >>

UpperChar ==
  [ c \in Alphabet |->
      IF \E i \in 1..26 : LowerLetters[i] = c
        THEN UpperLetters[CHOOSE i \in 1..26 : LowerLetters[i] = c]
        ELSE c ]

\* str.upper()
Upper(s) == [ i \in 1..Len(s) |-> UpperChar[s[i]] ]

\* str.strip(): drop leading and trailing whitespace
Strip(s) ==
  LET keep == { i \in 1..Len(s) : s[i] \notin Whitespace }
  IN  IF keep = {} THEN << >>
      ELSE LET lo == CHOOSE i \in keep : \A j \in keep : i <= j
               hi == CHOOSE i \in keep : \A j \in keep : j <= i
           IN  SubSeq(s, lo, hi)

\* str.replace(c, "") for a one-character c
Remove(s, c) == SelectSeq(s, LAMBDA x : x # c)

\* str.startswith(c) / str.endswith(c) for a one-character c
StartsWith(s, c) == Len(s) > 0 /\ s[1] = c

EndsWith(s, c) == Len(s) > 0 /\ s[Len(s)] = c

\* s[:-1]
DropLast(s) == IF Len(s) = 0 THEN << >> ELSE SubSeq(s, 1, Len(s) - 1)

\* a < b for str: lexicographic by code point
StrLess(a, b) ==
  \E i \in 1..(Len(a) + 1) :
     /\ \A j \in 1..(i - 1) : j <= Len(b) /\ a[j] = b[j]
     /\ i <= Len(b)
     /\ (i = Len(a) + 1 \/ Ord[a[i]] < Ord[b[i]])

(***************************************************************************)
(* int() and float()                                                       *)
(***************************************************************************)

RECURSIVE DigitsToInt(_)
DigitsToInt(d) ==
  IF Len(d) = 0 THEN 0
  ELSE 10 * DigitsToInt(DropLast(d)) + DigitVal[d[Len(d)]]

AllDigits(d) == Len(d) > 0 /\ \A i \in 1..Len(d) : d[i] \in DigitSet

\* A leading sign, split off: <<sign, rest>>
Signed(t) ==
  IF StartsWith(t, "-") THEN << -1, Tail(t) >>
  ELSE IF StartsWith(t, "+") THEN << 1, Tail(t) >>
  ELSE << 1, t >>

\* int(s): [ok |-> FALSE] stands for ValueError.  Surrounding whitespace and
\* one sign are accepted; the strings of the model hold no "_".
PyInt(s) ==
  LET sg == Signed(Strip(s))
  IN  IF AllDigits(sg[2])
        THEN [ok |-> TRUE, v |-> sg[1] * DigitsToInt(sg[2])]
        ELSE [ok |-> FALSE, v |-> 0]

\* A float: nan, +/-inf, or sign * m * 10^e with m free of trailing zeros.
NaN == [kind |-> "nan", sign |-> 1, m |-> 0, e |-> 0]

Inf(sg) == [kind |-> "inf", sign |-> sg, m |-> 0, e |-> 0]

Zero == [kind |-> "fin", sign |-> 1, m |-> 0, e |-> 0]

RECURSIVE Fin(_, _, _)
Fin(sg, m, e) ==
  IF m = 0 THEN Zero
  ELSE IF m % 10 = 0 THEN Fin(sg, m \div 10, e + 1)
  ELSE [kind |-> "fin", sign |-> sg, m |-> m, e |-> e]

\* float(s): [ok |-> FALSE] stands for ValueError.  Accepts surrounding
\* whitespace, one sign, "nan", "inf", "infinity" in any case, and decimals
\* "12", "1.2", "5.", ".5".  The strings of the model hold no "_" and no
\* exponent part.
PyFloat(s) ==
  LET sg   == Signed(Strip(s))
      body == sg[2]
      up   == Upper(body)
      dots == { i \in 1..Len(body) : body[i] = "." }
      ds   == Remove(body, ".")
  IN  IF up = << "N", "A", "N" >> THEN [ok |-> TRUE, v |-> NaN]
      ELSE IF up \in { << "I", "N", "F" >>,
                       << "I", "N", "F", "I", "N", "I", "T", "Y" >> }
        THEN [ok |-> TRUE, v |-> Inf(sg[1])]
      ELSE IF AllDigits(ds) /\ Cardinality(dots) <= 1
        THEN LET frac == IF dots = {} THEN 0
                         ELSE Len(body) - (CHOOSE i \in dots : TRUE)
             IN  [ok |-> TRUE, v |-> Fin(sg[1], DigitsToInt(ds), 0 - frac)]
      ELSE [ok |-> FALSE, v |-> Zero]

\* x * 10^k for a float x
Scale(x, k) == IF x.kind = "fin" /\ x.m # 0 THEN [x EXCEPT !.e = x.e + k] ELSE x

RECURSIVE NumDigits(_)
NumDigits(m) == IF m < 10 THEN 1 ELSE 1 + NumDigits(m \div 10)

RECURSIVE Pow10(_)
Pow10(k) == IF k <= 0 THEN 1 ELSE 10 * Pow10(k - 1)

\* |a| < |b| for finite nonzero a, b
MagLess(a, b) ==
  LET oa == NumDigits(a.m) + a.e
      ob == NumDigits(b.m) + b.e
      lo == IF a.e < b.e THEN a.e ELSE b.e
  IN  IF oa # ob THEN oa < ob
      ELSE a.m * Pow10(a.e - lo) < b.m * Pow10(b.e - lo)

\* a < b for floats: every comparison with nan is false
FloatLess(a, b) ==
  IF a.kind = "nan" \/ b.kind = "nan" THEN FALSE
  ELSE IF a.kind = "inf" THEN a.sign = -1 /\ ~(b.kind = "inf" /\ b.sign = -1)
  ELSE IF b.kind = "inf" THEN b.sign = 1
  ELSE IF a.m = 0 THEN b.m # 0 /\ b.sign = 1
  ELSE IF b.m = 0 THEN a.sign = -1
  ELSE IF a.sign # b.sign THEN a.sign = -1
  ELSE IF a.sign = 1 THEN MagLess(a, b)
  ELSE MagLess(b, a)

(***************************************************************************)
(* _parse_value                                                            *)
(***************************************************************************)

\* float(s[:-1]) * 10^k, or 0.0 on ValueError
SuffixValue(s, k) ==
  LET f == PyFloat(DropLast(s))
  IN  IF f.ok THEN Scale(f.v, k) ELSE Zero

_parse_value(value_str) ==
  LET s == Remove(Remove(Strip(value_str), "$"), ",")
      u == Upper(s)
  IN  IF EndsWith(u, "B") THEN SuffixValue(s, 9)
      ELSE IF EndsWith(u, "M") THEN SuffixValue(s, 6)
      ELSE IF EndsWith(u, "K") THEN SuffixValue(s, 3)
      ELSE LET f == PyFloat(s) IN IF f.ok THEN f.v ELSE Zero

(***************************************************************************)
(* The value parser on its own: a Value string is drawn, _parse_value is   *)
(* called on it once.                                                      *)
(***************************************************************************)

Concat3(S1, S2, S3) == { a \o b \o c : a \in S1, b \in S2, c \in S3 }

ValueLeads == { << >>, << "$" >>, << " ", "$" >> }

ValueCores ==
  { << >>,
    << "1", ".", "2" >>, << "4", "5", "0" >>, << "7", "1", ".", "3" >>,
    << "1", ",", "0", "0", "0" >>, << "-", "5" >>, << ".", "5" >>,
    << "1", ".", "2", ".", "3" >>,
    << "g", "a", "r", "b", "a", "g", "e" >>, << "N", "/", "A" >>,
    << "n", "a", "n" >>, << "i", "n", "f" >> }

ValueSuffixes ==
  { << >>, << "B" >>, << "b" >>, << "M" >>, << "m" >>, << "K" >>, << "k" >>,
    << "T" >>, << "K", " " >> }

ValueStrings == Concat3(ValueLeads, ValueCores, ValueSuffixes)

VARIABLES
  valueStr,   \* the argument of the call of _parse_value
  parsed,     \* what the call returned
  vpc         \* "call" before the call, "returned" after it

pvars == << valueStr, parsed, vpc >>

ParseInit ==
  /\ valueStr \in ValueStrings
  /\ parsed = Zero
  /\ vpc = "call"

\* one call of _parse_value: it has no except-free path that raises, and a
\* str argument is immutable
ParseValue ==
  /\ vpc = "call"
  /\ parsed' = _parse_value(valueStr)
  /\ vpc' = "returned"
  /\ UNCHANGED valueStr


(***************************************************************************)
(* list.sort()                                                             *)
(***************************************************************************)

ReverseSeq(s) == [ i \in 1..Len(s) |-> s[Len(s) + 1 - i] ]

\* count_run: the run that starts the list p of item numbers ends at i;
\* lt[x][y] is "key of item x < key of item y"
RECURSIVE RunEnd(_, _, _, _)
RunEnd(p, lt, i, desc) ==
  IF i = Len(p) THEN i
  ELSE IF lt[p[i + 1]][p[i]] = desc THEN RunEnd(p, lt, i + 1, desc)
  ELSE i

\* binarysort's search for the place of the pivot in p[l .. r-1]
RECURSIVE BinarySearch(_, _, _, _, _)
BinarySearch(p, lt, pivot, l, r) ==
  IF l >= r THEN l
  ELSE LET mid == l + ((r - l) \div 2)
       IN  IF lt[pivot][p[mid]] THEN BinarySearch(p, lt, pivot, l, mid)
           ELSE BinarySearch(p, lt, pivot, mid + 1, r)

\* binarysort: p[1 .. start-1] is sorted, insert the rest one by one
RECURSIVE BinarySort(_, _, _)
BinarySort(p, lt, start) ==
  IF start > Len(p) THEN p
  ELSE LET l == BinarySearch(p, lt, p[start], 1, start)
           q == SubSeq(p, 1, l - 1) \o << p[start] >> \o SubSeq(p, l, start - 1)
                  \o SubSeq(p, start + 1, Len(p))
       IN  BinarySort(q, lt, start + 1)

\* list.sort(reverse=...) of n items (n < 64, so one run and binarysort):
\* the item numbers 1..n in their final order.  A reverse sort reverses the
\* list, sorts it ascending and reverses the result.
ListSort(n, lt, reverse) ==
  LET p0   == [ i \in 1..n |-> i ]
      p1   == IF reverse THEN ReverseSeq(p0) ELSE p0
      desc == lt[p1[2]][p1[1]]
      run  == RunEnd(p1, lt, 2, desc)
      p2   == IF desc THEN ReverseSeq(SubSeq(p1, 1, run)) \o SubSeq(p1, run + 1, n)
              ELSE p1
      p3   == BinarySort(p2, lt, run + 1)
  IN  IF n < 2 THEN p0
      ELSE IF reverse THEN ReverseSeq(p3) ELSE p3

\* items.sort(key=..., reverse=...) for the keys of the items, in order
SortByFloat(items, keys, reverse) ==
  LET n    == Len(items)
      lt   == [ x \in 1..n |-> [ y \in 1..n |-> FloatLess(keys[x], keys[y]) ] ]
      perm == ListSort(n, lt, reverse)
  IN  [ i \in 1..n |-> items[perm[i]] ]

SortByStr(items, keys, reverse) ==
  LET n    == Len(items)
      lt   == [ x \in 1..n |-> [ y \in 1..n |-> StrLess(keys[x], keys[y]) ] ]
      perm == ListSort(n, lt, reverse)
  IN  [ i \in 1..n |-> items[perm[i]] ]

\* Some enumeration of a finite set (the order a directory scan yields)
RECURSIVE SetToSeq(_)
SetToSeq(S) ==
  IF S = {} THEN << >>
  ELSE LET x == CHOOSE y \in S : TRUE IN << x >> \o SetToSeq(S \ {x})

\* sorted(S, reverse=...) for a collection of str
Sorted(S, reverse) == LET l == SetToSeq(S) IN SortByStr(l, l, reverse)

(***************************************************************************)
(* The watchlist and find_latest_quarter                                   *)
(***************************************************************************)

NVDA == << "N", "V", "D", "A" >>

AAPL == << "A", "A", "P", "L" >>

MSFT == << "M", "S", "F", "T" >>

META == << "M", "E", "T", "A" >>

AMZN == << "A", "M", "Z", "N" >>

GOOGL == << "G", "O", "O", "G", "L" >>

AVGO == << "A", "V", "G", "O" >>

TSLA == << "T", "S", "L", "A" >>

AMD == << "A", "M", "D" >>

NFLX == << "N", "F", "L", "X" >>

CRM == << "C", "R", "M" >>

QQQ_TICKERS == { NVDA, AAPL, MSFT, META, AMZN, GOOGL, AVGO, TSLA, AMD, NFLX, CRM }

\* Python's None, as a value no str equals
None == << "None" >>

\* quarter_pattern.match(name) for r"^\d{4}Q[1-4]$": "$" matches at the end
\* of the string and also just before a newline that ends it
QuarterMatch(name) ==
  /\ Len(name) >= 6
  /\ \A i \in 1..4 : name[i] \in DigitSet
  /\ name[5] = "Q"
  /\ name[6] \in { "1", "2", "3", "4" }
  /\ \/ Len(name) = 6
     \/ Len(name) = 7 /\ name[7] = "\n"

\* entries: the directory entries, [name, isDir]
find_latest_quarter(entries) ==
  LET quarters == Sorted({ d.name : d \in { x \in entries : x.isDir /\ QuarterMatch(x.name) } },
                         TRUE)
  IN  IF Len(quarters) > 0 THEN quarters[1] ELSE None

(***************************************************************************)
(* Input files.  A csv.DictReader row is a function from the header's      *)
(* columns to fields; a field is a str, or None where the row is shorter   *)
(* than the header.                                                        *)
(***************************************************************************)

\* row.get(key, default)
Get(row, key, default) == IF key \in DOMAIN row THEN row[key] ELSE default

S0 == << "0" >>

S5 == << "5" >>

SNA == << "N", "/", "A" >>

SNew == << "N", "E", "W" >>

SPlus == << "+", "5", "%" >>

SMinus == << "-", "3", "%" >>

SFlat == << "0", "%" >>

SPct == << "1", "%" >>

S10M == << "1", "0", "M" >>

S2B == << "2", "B" >>

S500K == << "5", "0", "0", "K" >>

SNan == << "n", "a", "n" >>

FundA == << "a" >>

FundB == << "b" >>

FundStems == { FundA, FundB }

QuarterRow(t, d, s, ds, v, p) ==
  [Ticker |-> t, Delta |-> d, Shares |-> s, Delta_Shares |-> ds, Value |-> v]
    @@ ("Portfolio%" :> p)

\* Delta fields: new, new after trim and upper, closed, increased, decreased,
\* and two that are none of these
DeltaFields ==
  { SNew, << " ", "n", "e", "w" >>, << "C", "L", "O", "S", "E" >>, SPlus, SMinus,
    SFlat, << "C", "L", "O", "S", "E", "D" >> }

\* Rows that differ in Ticker and Delta
DeltaRows ==
  { QuarterRow(NVDA, d, S5, << "-", "3" >>, S10M, SPct) : d \in DeltaFields }
    \cup { QuarterRow(<< " " >> \o AAPL \o << " " >>, SPlus, S5, << "7" >>, S2B, SPct) }

\* Rows whose trimmed Ticker is no watchlist symbol
OtherRows ==
  { QuarterRow(t, SNew, S5, S5, S10M, SPct) : t \in { << "n", "v", "d", "a" >>, << >> } }

\* A row that ends before its last two columns, of a file whose header ends
\* with Shares and Delta_Shares
ShortRow == QuarterRow(NVDA, SPlus, None, None, S10M, SPct)

\* Rows that differ in Shares and Delta_Shares
SharesRows ==
  { QuarterRow(NVDA, SPlus, << "1", ",", "0", "0", "0" >>, << "+", "2" >>, S10M, SPct),
    QuarterRow(NVDA, SPlus, SNA, << "x" >>, S10M, SPct),
    QuarterRow(NVDA, SPlus, << >>, << " ", "4", " " >>, S10M, SPct),
    QuarterRow(NVDA, SPlus, << "1", ".", "5" >>, << "-", "3" >>, S10M, SPct),
    ShortRow }

\* A row of a file whose header has no Shares and no Delta_Shares column
NoSharesRows ==
  { [Ticker |-> NVDA, Delta |-> SNew, Value |-> S10M] @@ ("Portfolio%" :> SPct) }

\* The rows of the runs that exercise the ticker filter: two watchlist rows,
\* two others and a short one
QuarterRows ==
  { QuarterRow(NVDA, SPlus, S5, << "-", "3" >>, S10M, SPct),
    QuarterRow(<< " " >> \o AAPL \o << " " >>, SPlus, S5, << "7" >>, S2B, SPct),
    ShortRow }
    \cup OtherRows

\* The rows of the runs that exercise the Delta classes
ClassRows == DeltaRows \cup { QuarterRow(<< "n", "v", "d", "a" >>, SNew, S5, S5, S10M, SPct) }

\* Rows that differ in Value
ValueRows ==
  { QuarterRow(NVDA, SFlat, S5, S0, v, SPct) :
      v \in { S10M, S2B, S500K, SNan, << " ", "$", "2", ",", "0", "0", "0", "m" >> } }
    \cup { QuarterRow(AAPL, SNew, S5, S0, S10M, SPct) }

\* The rows of the runs that exercise the numeric fields and the sort
FieldRows == SharesRows \cup NoSharesRows \cup ValueRows

\* The rows of the runs that execute the script twice
TwiceRows ==
  { QuarterRow(NVDA, SNew, S5, S0, S10M, SPct), QuarterRow(AAPL, SPlus, S5, S0, S2B, SPct) }

Date1 == << "2", "0", "2", "5", "-", "0", "1", "-", "0", "2" >>

Date2 == << "2", "0", "2", "5", "-", "0", "3", "-", "0", "1" >>

NqRow(t, f, s, v, a, d, fd) ==
  [Ticker |-> t, Fund |-> f, Shares |-> s, Value |-> v, Avg_Price |-> a,
   Date |-> d, Filing_Date |-> fd]

NqRows ==
  { NqRow(NVDA, FundA, S5, S10M, << "1", ".", "5" >>, Date1, Date1),
    NqRow(NVDA, FundB, SNA, S2B, << "x" >>, Date1, Date2),
    NqRow(<< "n", "v", "d", "a" >>, FundA, S5, S10M, S5, Date1, Date2),
    NqRow(NVDA, FundA, None, None, None, None, None) }

\* hedge_funds.csv: absent, or one of these row lists
HedgeRows ==
  { << [Fund |-> << " ", "a" >>, Manager |-> << "A", "n", "n", " " >>],
       [Fund |-> << " " >>, Manager |-> << "X" >>] >>,
    << [Fund |-> FundB, Manager |-> None] >> }

\* All lists of at most n members of S
SeqsUpTo(S, n) == UNION { [1..k -> S] : k \in 0..n }

\* A file: [exists |-> FALSE, rows |-> << >>], or its rows.  All rows of a file
\* have the columns of its header.
NoFile == [exists |-> FALSE, rows |-> << >>]

FilesOf(Rows, n) ==
  { [exists |-> TRUE, rows |-> rs] :
      rs \in { s \in SeqsUpTo(Rows, n) :
                 \A i, j \in 1..Len(s) : DOMAIN s[i] = DOMAIN s[j] } }

\* What a read finds: what an earlier read of the same file found, if any
ReadFrom(known, contents) == IF known # {} THEN known ELSE contents

(***************************************************************************)
(* The functions of the script                                             *)
(***************************************************************************)

\* [ok |-> FALSE] stands for the AttributeError of None.strip()
RECURSIVE LoadRows(_, _)
LoadRows(rs, managers) ==
  IF rs = << >> THEN [ok |-> TRUE, managers |-> managers]
  ELSE LET fund    == Get(Head(rs), "Fund", << >>)
           manager == Get(Head(rs), "Manager", << >>)
       IN  IF fund = None \/ manager = None
             THEN [ok |-> FALSE, managers |-> managers]
           ELSE IF Strip(fund) # << >>
             THEN LoadRows(Tail(rs), (Strip(fund) :> Strip(manager)) @@ managers)
           ELSE LoadRows(Tail(rs), managers)

load_fund_managers(file) ==
  IF ~file.exists THEN [ok |-> TRUE, managers |-> << >>]
  ELSE LoadRows(file.rows, << >>)

\* A faulty classify_delta that compares without upper(): C5 tells it apart
classify_delta_cased(delta_str) ==
  LET d == Strip(delta_str)
  IN  IF d = << "N", "E", "W" >> THEN "new"
      ELSE IF d = << "C", "L", "O", "S", "E" >> THEN "closed"
      ELSE IF StartsWith(d, "+") THEN "increased"
      ELSE IF StartsWith(d, "-") THEN "decreased"
      ELSE "unchanged"

classify_delta(delta_str) ==
  LET d == Upper(Strip(delta_str))
  IN  IF d = << "N", "E", "W" >> THEN "new"
      ELSE IF d = << "C", "L", "O", "S", "E" >> THEN "closed"
      ELSE IF StartsWith(d, "+") THEN "increased"
      ELSE IF StartsWith(d, "-") THEN "decreased"
      ELSE "unchanged"

\* int(field.strip().replace(",", "")), or 0 on ValueError
ParseCount(field) ==
  LET r == PyInt(Remove(Strip(field), ","))
  IN  IF r.ok THEN r.v ELSE 0

\* float(field.strip()), or 0.0 on ValueError
ParsePrice(field) ==
  LET r == PyFloat(Strip(field))
  IN  IF r.ok THEN r.v ELSE Zero

\* A faulty NewHoldings whose comprehension misses one ticker: C1 tells it apart
NewHoldingsPartial(order) ==
  [keys |-> Tail(order),
   val  |-> [ t \in QQQ_TICKERS |->
                [positions |-> << >>,
                 summary   |-> [increased |-> 0, decreased |-> 0,
                                new |-> 0, closed |-> 0]] ]]

\* A dict is its keys in insertion order and its values
NewHoldings(order) ==
  [keys |-> order,
   val  |-> [ t \in QQQ_TICKERS |->
                [positions |-> << >>,
                 summary   |-> [increased |-> 0, decreased |-> 0,
                                new |-> 0, closed |-> 0]] ]]

NewResult(order) == [keys |-> order, val |-> [ t \in QQQ_TICKERS |-> << >> ]]

\* A faulty TickerOf that matches the watchlist without regard to case: C6
\* tells it apart
TickerOfUpper(row) == Upper(Strip(Get(row, "Ticker", << >>)))

\* row.get("Ticker", "").strip(), for a row that has a Ticker
TickerOf(row) == Strip(Get(row, "Ticker", << >>))

\* The fields one iteration of aggregate_quarter's row loop reads
QuarterFields(row) ==
  { Get(row, "Delta", << >>), Get(row, "Shares", S0), Get(row, "Delta_Shares", S0),
    Get(row, "Value", SNA), Get(row, "Portfolio%", SNA) }

\* What the iteration does with the row: "raise" is the AttributeError of
\* None.strip(), "skip" the continue, "add" a new position
QuarterOutcome(row) ==
  LET tk == Get(row, "Ticker", << >>)
  IN  IF tk = None THEN "raise"
      ELSE IF TickerOf(row) \notin QQQ_TICKERS THEN "skip"
      ELSE IF None \in QuarterFields(row) THEN "raise"
      ELSE "add"

MakePosition(row, fund_name, managers) ==
  [fund         |-> fund_name,
   manager      |-> IF fund_name \in DOMAIN managers THEN managers[fund_name] ELSE << >>,
   shares       |-> ParseCount(Get(row, "Shares", S0)),
   value        |-> Strip(Get(row, "Value", SNA)),
   portfolioPct |-> Strip(Get(row, "Portfolio%", SNA)),
   delta        |-> Strip(Get(row, "Delta", << >>)),
   deltaShares  |-> ParseCount(Get(row, "Delta_Shares", S0))]

\* A faulty AddPosition that keeps only the positions it counts: C10 tells it
\* apart
AddPositionCounted(h, ticker, position, category) ==
  IF category \in DOMAIN h.val[ticker].summary
    THEN [h EXCEPT !.val[ticker].positions = Append(@, position),
                   !.val[ticker].summary[category] = @ + 1]
    ELSE h

\* holdings[ticker]["positions"].append(position) and the counter update
AddPosition(h, ticker, position, category) ==
  [h EXCEPT !.val[ticker].positions = Append(@, position),
            !.val[ticker].summary =
               IF category \in DOMAIN @ THEN [@ EXCEPT ![category] = @ + 1] ELSE @]

SortedPositions(ps) ==
  SortByFloat(ps, [ i \in 1..Len(ps) |-> _parse_value(ps[i].value) ], TRUE)

\* The closing loop of aggregate_quarter
Finalize(h) ==
  [h EXCEPT !.val =
     [ t \in DOMAIN h.val |->
         LET ps == SortedPositions(h.val[t].positions)
         IN  [positions |-> ps, summary |-> h.val[t].summary, totalFunds |-> Len(ps)] ]]

NqFields(row) ==
  { Get(row, "Shares", S0), Get(row, "Avg_Price", S0), Get(row, "Fund", << >>),
    Get(row, "Value", SNA), Get(row, "Date", << >>), Get(row, "Filing_Date", << >>) }

NqOutcome(row) ==
  LET tk == Get(row, "Ticker", << >>)
  IN  IF tk = None THEN "raise"
      ELSE IF TickerOf(row) \notin QQQ_TICKERS THEN "skip"
      ELSE IF None \in NqFields(row) THEN "raise"
      ELSE "add"

MakeEntry(row) ==
  [fund       |-> Strip(Get(row, "Fund", << >>)),
   shares     |-> ParseCount(Get(row, "Shares", S0)),
   value      |-> Strip(Get(row, "Value", SNA)),
   avgPrice   |-> ParsePrice(Get(row, "Avg_Price", S0)),
   date       |-> Strip(Get(row, "Date", << >>)),
   filingDate |-> Strip(Get(row, "Filing_Date", << >>))]

AddEntry(r, ticker, entry) == [r EXCEPT !.val[ticker] = Append(@, entry)]

\* The closing loop of aggregate_non_quarterly
SortEntries(r) ==
  [r EXCEPT !.val =
     [ t \in DOMAIN r.val |->
         SortByStr(r.val[t], [ i \in 1..Len(r.val[t]) |-> r.val[t][i].filingDate ], TRUE) ]]

\* json.dump of a dict: its items in insertion order
Dump(d) == [ i \in 1..Len(d.keys) |-> [key |-> d.keys[i], value |-> d.val[d.keys[i]]] ]

(***************************************************************************)
(* main(): one action per step of the driver and per loop iteration of the *)
(* aggregators.  The files under the database directory are the input; the *)
(* content of a file is fixed when it is first read.                       *)
(***************************************************************************)

\* Bounds: the data rows (per-fund and non-quarterly) one run reads
MaxRows == 2

MaxFieldRows == 3

MaxTwiceRows == 1

\* The orders in which one process may iterate the set QQQ_TICKERS (it
\* depends on the process's str hash seed); two of the 11! are modelled
BaseOrder == << NVDA, AAPL, MSFT, META, AMZN, GOOGL, AVGO, TSLA, AMD, NFLX, CRM >>

TickerOrders == { BaseOrder, ReverseSeq(BaseOrder) }

Unset == << "unset" >>

\* A qqq-summary.json left by an earlier run on other data
Stale ==
  [quarter |-> << "2", "0", "2", "4", "Q", "3" >>, generatedAt |-> 0,
   holdings |-> << >>, nonQuarterly |-> << >>]

Dir(name) == [name |-> name, isDir |-> TRUE]

Q2024Q3 == << "2", "0", "2", "4", "Q", "3" >>

Q2025Q1 == << "2", "0", "2", "5", "Q", "1" >>

Q2025Q4 == << "2", "0", "2", "5", "Q", "4" >>

NotAQuarter == << "n", "o", "t", "a", "q", "u", "a", "r", "t", "e", "r" >>

\* The directory listings of the driver's runs: no quarter, and the quarters
\* 2024Q3 and 2025Q4
MainListings == { { Dir(NotAQuarter) }, { Dir(Q2024Q3), Dir(Q2025Q4), Dir(NotAQuarter) } }

VARIABLES
  pc,         \* where main() is: start, load, quarter, nonq, nqrows, write, done, raised
  dirs,       \* the entries of the database directory
  outfile,    \* qqq-summary.json: {} if absent, else {its content}
  disk,       \* the input files as read so far
  hashOrder,  \* this process's iteration order of QQQ_TICKERS
  run,        \* 1 for the first execution of the script, 2 for the second
  firstOut,   \* qqq-summary.json as the first execution left it
  quarter,    \* main's quarter
  managers,   \* main's managers
  holdings,   \* aggregate_quarter's holdings
  queue,      \* the files aggregate_quarter has still to read, sorted
  fund,       \* fund_name
  rows,       \* the rows of the current file not yet processed
  nread,      \* data rows read by this execution
  result,     \* aggregate_non_quarterly's result
  nqrows,     \* the rows of non_quarterly.csv not yet processed
  ran,        \* the functions main has called after find_latest_quarter
  writes,     \* how often this execution opened the output file for writing
  stdout      \* what this execution printed

mvars == << pc, dirs, outfile, disk, hashOrder, run, firstOut, quarter, managers,
            holdings, queue, fund, rows, nread, result, nqrows, ran, writes, stdout >>

vars == << mvars, pvars >>

locals == << quarter, managers, holdings, queue, fund, rows, nread, result, nqrows >>

EmptyDisk ==
  [hedge |-> {}, listed |-> {}, csv |-> [ f \in FundStems |-> {} ], nq |-> {}]

\* The local variables of main before their assignment
FreshLocals ==
  /\ quarter = Unset
  /\ managers = << >>
  /\ holdings = [keys |-> << >>, val |-> << >>]
  /\ queue = << >>
  /\ fund = << >>
  /\ rows = << >>
  /\ nread = 0
  /\ result = [keys |-> << >>, val |-> << >>]
  /\ nqrows = << >>

MainInit(listings) ==
  /\ pc = "start"
  /\ dirs \in listings
  /\ outfile \in { {}, { Stale } }
  /\ disk = EmptyDisk
  /\ hashOrder \in TickerOrders
  /\ run = 1
  /\ firstOut = {}
  /\ FreshLocals
  /\ ran = {}
  /\ writes = 0
  /\ stdout = << >>

\* The value parser is not called on its own in a run of main
ParseIdle == valueStr = << >> /\ parsed = Zero /\ vpc = "idle"

\* A faulty FindLatestQuarter step whose "if not quarter" branch does not
\* return: C4 tells it apart
FindLatestQuarterNoReturn ==
  /\ pc = "start"
  /\ quarter' = find_latest_quarter(dirs)
  /\ stdout' = Append(stdout, IF quarter' = None THEN "No quarterly data found."
                                                ELSE "Aggregating data for quarter")
  /\ pc' = "load"
  /\ UNCHANGED << dirs, outfile, disk, hashOrder, run, firstOut, managers, holdings,
                  queue, fund, rows, nread, result, nqrows, ran, writes, pvars >>

\* main, lines 185-190
FindLatestQuarter ==
  /\ pc = "start"
  /\ quarter' = find_latest_quarter(dirs)
  /\ IF quarter' = None
       THEN stdout' = Append(stdout, "No quarterly data found.") /\ pc' = "done"
       ELSE stdout' = Append(stdout, "Aggregating data for quarter") /\ pc' = "load"
  /\ UNCHANGED << dirs, outfile, disk, hashOrder, run, firstOut, managers, holdings,
                  queue, fund, rows, nread, result, nqrows, ran, writes, pvars >>

\* main, lines 191-192, and aggregate_quarter up to its file loop: the dict
\* of empty holdings and the sorted list of the quarter's files
LoadFundManagers ==
  /\ pc = "load"
  /\ \E file \in ReadFrom(disk.hedge,
                          { NoFile } \cup { [exists |-> TRUE, rows |-> r] : r \in HedgeRows }),
        present \in ReadFrom(disk.listed, SUBSET FundStems) :
       LET loaded == load_fund_managers(file)
       IN  /\ disk' = [disk EXCEPT !.hedge = { file },
                                   !.listed = IF loaded.ok THEN { present } ELSE @]
           /\ managers' = loaded.managers
           /\ IF loaded.ok
                THEN /\ pc' = "quarter"
                     /\ stdout' = Append(stdout, "Loaded fund managers")
                     /\ holdings' = NewHoldings(hashOrder)
                     /\ queue' = Sorted({ f \o << ".", "c", "s", "v" >> : f \in present }, FALSE)
                     /\ ran' = ran \cup { "load_fund_managers", "aggregate_quarter" }
                ELSE /\ pc' = "raised"
                     /\ ran' = ran \cup { "load_fund_managers" }
                     /\ UNCHANGED << stdout, holdings, queue >>
  /\ UNCHANGED << dirs, outfile, hashOrder, run, firstOut, quarter, fund, rows, nread,
                  result, nqrows, writes, pvars >>

\* csv_file.stem
Stem(filename) == SubSeq(filename, 1, Len(filename) - 4)

\* aggregate_quarter, lines 77-79: the next file is parsed
ParseFundCsv(Rows, budget) ==
  /\ pc = "quarter"
  /\ rows = << >>
  /\ queue # << >>
  /\ LET stem == Stem(Head(queue))
     IN  \E file \in ReadFrom(disk.csv[stem], FilesOf(Rows, budget - nread)) :
           /\ disk' = [disk EXCEPT !.csv[stem] = { file }]
           /\ fund' = stem
           /\ rows' = file.rows
           /\ nread' = nread + Len(file.rows)
  /\ queue' = Tail(queue)
  /\ UNCHANGED << pc, dirs, outfile, hashOrder, run, firstOut, quarter, managers,
                  holdings, result, nqrows, ran, writes, stdout, pvars >>

\* aggregate_quarter, lines 81-115: one iteration of the row loop
ProcessRow ==
  /\ pc = "quarter"
  /\ rows # << >>
  /\ LET row     == Head(rows)
         outcome == QuarterOutcome(row)
     IN  /\ pc' = IF outcome = "raise" THEN "raised" ELSE pc
         /\ holdings' =
              IF outcome = "add"
                THEN AddPosition(holdings, TickerOf(row),
                                 MakePosition(row, fund, managers),
                                 classify_delta(Strip(Get(row, "Delta", << >>))))
                ELSE holdings
         /\ rows' = IF outcome = "raise" THEN rows ELSE Tail(rows)
  /\ UNCHANGED << dirs, outfile, disk, hashOrder, run, firstOut, quarter, managers,
                  queue, fund, nread, result, nqrows, ran, writes, stdout, pvars >>

\* aggregate_quarter, lines 117-122, and aggregate_non_quarterly, lines
\* 142-149: positions sorted and counted, then non_quarterly.csv opened
SortPositions(Rows, budget) ==
  /\ pc = "quarter"
  /\ rows = << >>
  /\ queue = << >>
  /\ holdings' = Finalize(holdings)
  /\ result' = NewResult(hashOrder)
  /\ ran' = ran \cup { "aggregate_non_quarterly" }
  /\ \E file \in ReadFrom(disk.nq, { NoFile } \cup FilesOf(Rows, budget - nread)) :
       /\ disk' = [disk EXCEPT !.nq = { file }]
       /\ nqrows' = file.rows
       /\ nread' = nread + Len(file.rows)
       /\ pc' = IF file.exists THEN "nqrows" ELSE "write"
  /\ UNCHANGED << dirs, outfile, hashOrder, run, firstOut, quarter, managers, queue,
                  fund, rows, writes, stdout, pvars >>

\* aggregate_non_quarterly, lines 150-175: one iteration of the row loop
ProcessNqRow ==
  /\ pc = "nqrows"
  /\ nqrows # << >>
  /\ LET row     == Head(nqrows)
         outcome == NqOutcome(row)
     IN  /\ pc' = IF outcome = "raise" THEN "raised" ELSE pc
         /\ result' =
              IF outcome = "add"
                THEN AddEntry(result, TickerOf(row), MakeEntry(row))
                ELSE result
         /\ nqrows' = IF outcome = "raise" THEN nqrows ELSE Tail(nqrows)
  /\ UNCHANGED << dirs, outfile, disk, hashOrder, run, firstOut, quarter, managers,
                  holdings, queue, fund, rows, nread, ran, writes, stdout, pvars >>

\* aggregate_non_quarterly, lines 177-181
SortNonQuarterly ==
  /\ pc = "nqrows"
  /\ nqrows = << >>
  /\ result' = SortEntries(result)
  /\ pc' = "write"
  /\ UNCHANGED << dirs, outfile, disk, hashOrder, run, firstOut, quarter, managers,
                  holdings, queue, fund, rows, nread, nqrows, ran, writes, stdout, pvars >>

\* main, lines 197-214; generatedAt is the time of the run
WriteOutput ==
  /\ pc = "write"
  /\ outfile' = { [quarter |-> quarter, generatedAt |-> run,
                   holdings |-> Dump(holdings), nonQuarterly |-> Dump(result)] }
  /\ writes' = writes + 1
  /\ stdout' = stdout \o << "ticker stats", "Output written" >>
  /\ pc' = "done"
  /\ UNCHANGED << dirs, disk, hashOrder, run, firstOut, quarter, managers, holdings,
                  queue, fund, rows, nread, result, nqrows, ran, pvars >>

\* The script is executed again, in a new process, on the same input files
Rerun ==
  /\ pc = "done"
  /\ run = 1
  /\ run' = 2
  /\ firstOut' = outfile
  /\ hashOrder' \in TickerOrders
  /\ pc' = "start"
  /\ quarter' = Unset
  /\ managers' = << >>
  /\ holdings' = [keys |-> << >>, val |-> << >>]
  /\ queue' = << >>
  /\ fund' = << >>
  /\ rows' = << >>
  /\ nread' = 0
  /\ result' = [keys |-> << >>, val |-> << >>]
  /\ nqrows' = << >>
  /\ ran' = {}
  /\ writes' = 0
  /\ stdout' = << >>
  /\ UNCHANGED << dirs, outfile, disk, pvars >>

Init == MainInit(MainListings) /\ ParseIdle

Next ==
  \/ FindLatestQuarter
  \/ LoadFundManagers
  \/ ParseFundCsv(QuarterRows, MaxRows)
  \/ ProcessRow
  \/ SortPositions(NqRows, MaxRows)
  \/ ProcessNqRow
  \/ SortNonQuarterly
  \/ WriteOutput

\* One execution of the script; the rows differ in Ticker
Spec == Init /\ [][Next]_vars

NextDelta ==
  \/ FindLatestQuarter
  \/ LoadFundManagers
  \/ ParseFundCsv(ClassRows, MaxRows)
  \/ ProcessRow
  \/ SortPositions(NqRows, MaxRows)
  \/ ProcessNqRow
  \/ SortNonQuarterly
  \/ WriteOutput

\* One execution of the script; the rows differ in Delta
SpecDelta == Init /\ [][NextDelta]_vars

NextFields ==
  \/ FindLatestQuarter
  \/ LoadFundManagers
  \/ ParseFundCsv(FieldRows, MaxFieldRows)
  \/ ProcessRow
  \/ SortPositions(NqRows, MaxFieldRows)
  \/ ProcessNqRow
  \/ SortNonQuarterly
  \/ WriteOutput

\* One execution of the script; the rows differ in Shares, Delta_Shares and Value
SpecFields == Init /\ [][NextFields]_vars

NextTwice ==
  \/ FindLatestQuarter
  \/ LoadFundManagers
  \/ ParseFundCsv(TwiceRows, MaxTwiceRows)
  \/ ProcessRow
  \/ SortPositions(NqRows, MaxTwiceRows)
  \/ ProcessNqRow
  \/ SortNonQuarterly
  \/ WriteOutput
  \/ Rerun

\* Two executions of the script on the same input files
SpecTwice == Init /\ [][NextTwice]_vars

\* The names a directory scan may find, each a directory, a file or missing
DirNames ==
  { Q2024Q3, Q2025Q1, Q2025Q4, NotAQuarter,
    Q2025Q4 \o << "\n" >>,
    << "2", "0", "2", "5", "Q", "5" >>,
    << "2", "0", "2", "6", "Q" >>,
    << "2", "0", "2", "6", "q", "1" >>,
    << "x" >> \o Q2025Q4 }

AllListings ==
  { { [name |-> n, isDir |-> (k[n] = "dir")] : n \in { m \in DirNames : k[m] # "missing" } } :
      k \in [DirNames -> { "dir", "file", "missing" }] }

LocateInit ==
  /\ pc = "start"
  /\ dirs \in AllListings
  /\ outfile = {}
  /\ disk = EmptyDisk
  /\ hashOrder = BaseOrder
  /\ run = 1
  /\ firstOut = {}
  /\ FreshLocals
  /\ ran = {}
  /\ writes = 0
  /\ stdout = << >>
  /\ ParseIdle

\* find_latest_quarter on every listing, as main calls it
SpecLocate == LocateInit /\ [][FindLatestQuarter]_vars

ParseOnlyInit ==
  /\ ParseInit
  /\ pc = "idle"
  /\ dirs = {}
  /\ outfile = {}
  /\ disk = EmptyDisk
  /\ hashOrder = BaseOrder
  /\ run = 1
  /\ firstOut = {}
  /\ FreshLocals
  /\ ran = {}
  /\ writes = 0
  /\ stdout = << >>

CallParseValue == ParseValue /\ UNCHANGED mvars

\* _parse_value on every Value string
SpecParse == ParseOnlyInit /\ [][CallParseValue]_vars

(***************************************************************************)
(* Properties.  What a property expects is written from its statement, not *)
(* with the functions of the script.                                       *)
(***************************************************************************)

\* aggregate_quarter has been called, so holdings is bound
QuarterStarted == "aggregate_quarter" \in ran

\* aggregate_quarter has returned (main calls aggregate_non_quarterly next),
\* so result is bound
QuarterReturned == "aggregate_non_quarterly" \in ran

\* The trimmed Ticker field of a row
TrimmedTicker(row) == IF row.Ticker = None THEN None ELSE Strip(row.Ticker)

\* The stated rule for Delta
StatedCategory(delta) ==
  LET d == Upper(Strip(delta))
  IN  CASE d = SNew -> "new"
        [] d = << "C", "L", "O", "S", "E" >> -> "closed"
        [] d # SNew /\ d # << "C", "L", "O", "S", "E" >> /\ Len(d) > 0 /\ d[1] = "+" -> "increased"
        [] d # SNew /\ d # << "C", "L", "O", "S", "E" >> /\ Len(d) > 0 /\ d[1] = "-" -> "decreased"
        [] OTHER -> "unchanged"

Counted == { "increased", "decreased", "new", "closed" }

\* The rows of per-fund file f, once it has been read
FileRows(f) == IF disk.csv[f] = {} THEN << >> ELSE (CHOOSE x \in disk.csv[f] : TRUE).rows

\* The rows of non_quarterly.csv, once it has been read
NqFileRows == IF disk.nq = {} THEN << >> ELSE (CHOOSE x \in disk.nq : TRUE).rows

\* The rows of f the row loop has completed: all of an earlier file, and of
\* the current one those before the rows still to come
Processed(f) ==
  IF f = fund THEN SubSeq(FileRows(f), 1, Len(FileRows(f)) - Len(rows)) ELSE FileRows(f)

\* The rows of a list of rows per file: each with its file, its place, its
\* trimmed Ticker and the category of its Delta under the stated rule
Tagged(rowsOf(_)) ==
  UNION { { [file |-> f, at |-> i, ticker |-> TrimmedTicker(rowsOf(f)[i]),
             category |-> StatedCategory(rowsOf(f)[i].Delta)] : i \in 1..Len(rowsOf(f)) } :
          f \in FundStems }

KeySet(d) == { d.keys[i] : i \in 1..Len(d.keys) }

\* A dict whose keys are the watchlist tickers, each once
KeyedByWatchlist(d) ==
  /\ Len(d.keys) = Cardinality(QQQ_TICKERS)
  /\ KeySet(d) = QQQ_TICKERS
  /\ DOMAIN d.val = QQQ_TICKERS

ZeroCounters == [increased |-> 0, decreased |-> 0, new |-> 0, closed |-> 0]

SumCounters(s) == s.increased + s.decreased + s.new + s.closed

(***************************************************************************)
(* C8                                                                      *)
(***************************************************************************)

\* Exactly four digits, "Q", one digit 1-4
QuarterShaped(name) ==
  /\ Len(name) = 6
  /\ \A i \in 1..4 : name[i] \in DigitSet
  /\ name[5] = "Q"
  /\ name[6] \in { "1", "2", "3", "4" }

ShapedDirs == { d.name : d \in { x \in dirs : x.isDir /\ QuarterShaped(x.name) } }

\* C8: find_latest_quarter returns the greatest, under string comparison, of
\* the names of the immediate subdirectories that are exactly four digits, "Q"
\* and a digit 1-4, and None exactly when there is no such subdirectory; on
\* 2024Q3, 2025Q1, 2025Q4, notaquarter it returns 2025Q4.
C8_LatestQuarter ==
  pc # "start" =>
    /\ IF ShapedDirs = {} THEN quarter = None
       ELSE quarter \in ShapedDirs /\ \A n \in ShapedDirs : ~StrLess(quarter, n)
    /\ dirs = { Dir(Q2024Q3), Dir(Q2025Q1), Dir(Q2025Q4), Dir(NotAQuarter) }
         => quarter = Q2025Q4

(***************************************************************************)
(* C9                                                                      *)
(***************************************************************************)

\* A number: an optional sign, then digits with at most one "."
IsNumber(t) ==
  LET b == Signed(t)[2]
  IN  /\ \E i \in 1..Len(b) : b[i] \in DigitSet
      /\ \A i \in 1..Len(b) : b[i] \in DigitSet \cup { "." }
      /\ Cardinality({ i \in 1..Len(b) : b[i] = "." }) <= 1

\* The value of a number t times 10^k
NumberTimes(t, k) ==
  LET b    == Signed(t)[2]
      dots == { i \in 1..Len(b) : b[i] = "." }
      frac == IF dots = {} THEN 0 ELSE Len(b) - (CHOOSE i \in dots : TRUE)
  IN  Fin(Signed(t)[1], DigitsToInt(Remove(b, ".")), k - frac)

\* The stated value of a Value string
StatedValue(value_str) ==
  LET s    == Remove(Remove(Strip(value_str), "$"), ",")
      last == IF Len(s) = 0 THEN "" ELSE s[Len(s)]
      k    == CASE last \in { "B", "b" } -> 9
                [] last \in { "M", "m" } -> 6
                [] last \in { "K", "k" } -> 3
                [] OTHER -> 0
      t    == IF last \in { "B", "b", "M", "m", "K", "k" } THEN DropLast(s) ELSE s
  IN  IF IsNumber(t) THEN NumberTimes(t, k) ELSE Zero

\* C9: _parse_value returns number x 1e9, x 1e6, x 1e3 for a trailing B, M,
\* K in either case, the number itself without a suffix, and 0.0 for every
\* other input; "1.2B" gives 1,200,000,000, "450K" 450,000, "$71.3M"
\* 71,300,000, "garbage" and "" 0.0.
C9_ParseValue ==
  vpc = "returned" =>
    /\ parsed = StatedValue(valueStr)
    /\ valueStr = << "1", ".", "2", "B" >> => parsed = Fin(1, 12, 8)
    /\ valueStr = << "4", "5", "0", "K" >> => parsed = Fin(1, 45, 4)
    /\ valueStr = << "$", "7", "1", ".", "3", "M" >> => parsed = Fin(1, 713, 5)
    /\ valueStr \in { << "g", "a", "r", "b", "a", "g", "e" >>, << >> } => parsed = Zero

(***************************************************************************)
(* C2                                                                      *)
(***************************************************************************)

\* C2: two executions of the script on the same input files leave the same
\* holdings and nonQuarterly sections in qqq-summary.json: same keys in the
\* same order, same positions in the same order, same counters.
C2_SameSections ==
  (run = 2 /\ pc = "done" /\ quarter # None) =>
    \A first \in firstOut, second \in outfile :
       /\ first.holdings = second.holdings
       /\ first.nonQuarterly = second.nonQuarterly

(***************************************************************************)
(* C3                                                                      *)
(***************************************************************************)

\* The integer a count field stands for after trimming and removing commas,
\* 0 if it stands for none or the row has no such field
StatedCount(row, key) ==
  IF key \notin DOMAIN row \/ row[key] = None THEN 0
  ELSE LET t == Signed(Remove(Strip(row[key]), ","))
       IN  IF AllDigits(t[2]) THEN t[1] * DigitsToInt(t[2]) ELSE 0

\* The fields of a per-fund row other than Shares and Delta_Shares are there
OtherFieldsPresent(row) ==
  \A key \in DOMAIN row \ { "Shares", "Delta_Shares" } : row[key] # None

\* C3: whatever the Shares and Delta_Shares fields of a watchlist row hold,
\* or if the row lacks them, the row loop does not raise, goes on to the next
\* row, and stores as shares and deltaShares the integers the fields stand
\* for after trimming and removing commas, 0 where they stand for none.
C3_CountsNeverRaise ==
  [][ (/\ pc = "quarter"
       /\ rows # << >>
       /\ TrimmedTicker(Head(rows)) \in QQQ_TICKERS
       /\ OtherFieldsPresent(Head(rows)))
      => /\ pc' = "quarter"
         /\ rows' = Tail(rows)
         /\ LET T     == TrimmedTicker(Head(rows))
                after == holdings'.val[T].positions
            IN  /\ Len(after) = Len(holdings.val[T].positions) + 1
                /\ after[Len(after)].shares = StatedCount(Head(rows), "Shares")
                /\ after[Len(after)].deltaShares = StatedCount(Head(rows), "Delta_Shares")
    ]_vars

(***************************************************************************)
(* C7                                                                      *)
(***************************************************************************)

\* No position is followed, anywhere later in the list, by one of greater value
NonIncreasing(ps) ==
  \A i, j \in 1..Len(ps) :
     i < j => ~FloatLess(_parse_value(ps[i].value), _parse_value(ps[j].value))

Occurrences(ps, x) == Cardinality({ i \in 1..Len(ps) : ps[i] = x })

IsPermutation(ps, qs) ==
  /\ Len(ps) = Len(qs)
  /\ \A i \in 1..Len(qs) : Occurrences(ps, qs[i]) = Occurrences(qs, qs[i])

\* C7: when aggregate_quarter returns, every ticker's position list is a
\* permutation of the positions accumulated for it, the values parsed from
\* the positions' Value strings are non-increasing along it, and totalFunds
\* is its length.
C7_SortedByValue ==
  [][ (pc = "quarter" /\ pc' \in { "nqrows", "write" })
      => \A T \in QQQ_TICKERS :
           /\ IsPermutation(holdings'.val[T].positions, holdings.val[T].positions)
           /\ NonIncreasing(holdings'.val[T].positions)
           /\ holdings'.val[T].totalFunds = Len(holdings'.val[T].positions)
    ]_vars

(***************************************************************************)
(* C4                                                                      *)
(***************************************************************************)

BothAggregated ==
  /\ { "aggregate_quarter", "aggregate_non_quarterly" } \subseteq ran
  /\ queue = << >> /\ rows = << >> /\ nqrows = << >>

C4_Always ==
  /\ quarter = None =>
       pc = "done" /\ ran = {} /\ writes = 0 /\ stdout = << "No quarterly data found." >>
  /\ writes <= 1
  /\ writes = 1 => quarter \notin { None, Unset } /\ pc = "done" /\ BothAggregated
  /\ (pc = "done" /\ quarter # None) => writes = 1

C4_Step ==
  /\ outfile' # outfile => pc = "write" /\ BothAggregated /\ writes' = 1
  /\ quarter' = None => outfile' = outfile /\ pc' = "done"

C5_Returned ==
  QuarterReturned =>
    LET all == Tagged(FileRows)
    IN  \A T \in QQQ_TICKERS, c \in Counted :
           holdings.val[T].summary[c] =
             Cardinality({ p \in all : p.ticker = T /\ p.category = c })

C5_Step ==
  (/\ pc = "quarter"
   /\ rows # << >>
   /\ TrimmedTicker(Head(rows)) \in QQQ_TICKERS
   /\ pc' = "quarter")
  => LET T == TrimmedTicker(Head(rows))
         c == StatedCategory(Head(rows).Delta)
     IN  holdings'.val[T].summary =
           IF c \in Counted
             THEN [holdings.val[T].summary EXCEPT ![c] = @ + 1]
             ELSE holdings.val[T].summary

\* C5: after aggregate_quarter, each counter of each ticker is the number of
\* rows of that ticker, over all per-fund files, whose Delta falls in the
\* counter's category under the stated rule; each row adds one to the counter
\* of its category and to no other, and a row classified unchanged to none.
C5_SummaryCounts == []C5_Returned /\ [][C5_Step]_vars

\* NVDA had a row "+5%" and a row " new", and each was counted once
C5_Witness ==
  /\ QuarterReturned
  /\ holdings.val[NVDA].summary = [ZeroCounters EXCEPT !.increased = 1, !.new = 1]
  /\ \E f \in FundStems : \E i \in 1..Len(FileRows(f)) : FileRows(f)[i].Delta = << " ", "n", "e", "w" >>

(***************************************************************************)
(* C6                                                                      *)
(***************************************************************************)

Foreign(row) == TrimmedTicker(row) \notin QQQ_TICKERS

C6_Step ==
  /\ (pc = "quarter" /\ rows # << >> /\ Foreign(Head(rows)))
       => holdings' = holdings /\ result' = result /\ rows' = Tail(rows)
  /\ (pc = "nqrows" /\ nqrows # << >> /\ Foreign(Head(nqrows)))
       => holdings' = holdings /\ result' = result /\ nqrows' = Tail(nqrows)

\* The files read so far hold rows of no watchlist ticker only
OnlyForeignRows ==
  /\ \A f \in FundStems : \A i \in 1..Len(FileRows(f)) : Foreign(FileRows(f)[i])
  /\ \A i \in 1..Len(NqFileRows) : Foreign(NqFileRows[i])

C6_Always ==
  OnlyForeignRows =>
    /\ QuarterStarted =>
         \A T \in QQQ_TICKERS :
            holdings.val[T].positions = << >> /\ holdings.val[T].summary = ZeroCounters
    /\ QuarterReturned => \A T \in QQQ_TICKERS : result.val[T] = << >>

\* C6: a row whose trimmed Ticker is not one of the watchlist symbols, as
\* "nvda" or "", adds no position to any list, changes no counter and adds no
\* non-quarterly entry, after any prefix of the rows.
C6_ForeignRowsDropped == []C6_Always /\ [][C6_Step]_vars

\* A run to the end over a per-fund row "nvda" and a non-quarterly row "nvda"
C6_Witness ==
  /\ pc = "done" /\ writes = 1
  /\ \E f \in FundStems : Len(FileRows(f)) = 1 /\ FileRows(f)[1].Ticker = << "n", "v", "d", "a" >>
  /\ Len(NqFileRows) = 1 /\ NqFileRows[1].Ticker = << "n", "v", "d", "a" >>
  /\ \A T \in QQQ_TICKERS : holdings.val[T].positions = << >> /\ result.val[T] = << >>

(***************************************************************************)
(* C10                                                                     *)
(***************************************************************************)

RECURSIVE TotalPositions(_)
TotalPositions(S) ==
  IF S = {} THEN 0
  ELSE LET T == CHOOSE x \in S : TRUE
       IN  Len(holdings.val[T].positions) + TotalPositions(S \ { T })

\* C10: at every step of the row loop and in the result, the four counters
\* of a ticker sum to at most the number of its positions, the difference
\* being the number of its processed rows classified unchanged; the positions
\* of all tickers together are as many as the watchlist rows processed so
\* far; and in the result the counters sum to at most totalFunds.
C10_CountersBelowPositions ==
  QuarterStarted =>
    LET done == Tagged(Processed)
    IN  /\ \A T \in QQQ_TICKERS :
             LET h == holdings.val[T]
             IN  /\ SumCounters(h.summary) <= Len(h.positions)
                 /\ Len(h.positions) - SumCounters(h.summary) =
                      Cardinality({ p \in done : p.ticker = T /\ p.category = "unchanged" })
                 /\ Len(h.positions) = Cardinality({ p \in done : p.ticker = T })
                 /\ QuarterReturned => SumCounters(h.summary) <= h.totalFunds
        /\ TotalPositions(QQQ_TICKERS) =
             Cardinality({ p \in done : p.ticker \in QQQ_TICKERS })

\* In the row loop, NVDA has two positions and one of them is counted
C10_Witness ==
  /\ pc = "quarter"
  /\ Len(holdings.val[NVDA].positions) = 2
  /\ SumCounters(holdings.val[NVDA].summary) = 1

(***************************************************************************)
(* C1                                                                      *)
(***************************************************************************)

\* The trimmed Tickers of the rows of the per-fund files, and of
\* non_quarterly.csv
QuarterTickers == { p.ticker : p \in Tagged(FileRows) }

NqTickers == { TrimmedTicker(NqFileRows[i]) : i \in 1..Len(NqFileRows) }

\* C1 as stated: both mappings have exactly the watchlist tickers as keys; a
\* ticker without matching rows has an empty position list, four counters 0
\* and totalFunds 0 in holdings and an empty list in nonQuarterly, at every
\* step of the row loops and at the end.
C1_AsStated ==
  /\ QuarterStarted =>
       /\ KeyedByWatchlist(holdings)
       /\ \A T \in QQQ_TICKERS \ QuarterTickers :
            holdings.val[T] = [positions |-> << >>, summary |-> ZeroCounters, totalFunds |-> 0]
  /\ QuarterReturned =>
       /\ KeyedByWatchlist(result)
       /\ \A T \in QQQ_TICKERS \ NqTickers : result.val[T] = << >>

\* C1, amended: both mappings have exactly the watchlist tickers as keys at
\* every step of the row loops and at the end; a ticker without matching rows
\* has an empty position list and four counters 0 throughout, and an empty
\* nonQuarterly list; its totalFunds is 0 in the mapping aggregate_quarter
\* returns, while during the row loop no entry of holdings has a totalFunds.
C1_WatchlistKeys ==
  /\ QuarterStarted =>
       /\ KeyedByWatchlist(holdings)
       /\ \A T \in QQQ_TICKERS :
            /\ DOMAIN holdings.val[T] =
                 IF QuarterReturned THEN { "positions", "summary", "totalFunds" }
                                    ELSE { "positions", "summary" }
       /\ \A T \in QQQ_TICKERS \ QuarterTickers :
            /\ holdings.val[T].positions = << >>
            /\ holdings.val[T].summary = ZeroCounters
            /\ QuarterReturned => holdings.val[T].totalFunds = 0
  /\ QuarterReturned =>
       /\ KeyedByWatchlist(result)
       /\ \A T \in QQQ_TICKERS \ NqTickers : result.val[T] = << >>

\* A run to the end, without non_quarterly.csv, in which NVDA has a position
\* and MSFT has no row
C1_Witness ==
  /\ pc = "done" /\ writes = 1
  /\ disk.nq = { NoFile }
  /\ holdings.val[NVDA].positions # << >>
  /\ MSFT \notin QuarterTickers /\ holdings.val[MSFT].totalFunds = 0
  /\ result.val[MSFT] = << >>

====
